---- MODULE Spec2Model ----
(***************************************************************************)
(* Verification model of the Internship-Sioux notebooks.                   *)
(*                                                                         *)
(* Each notebook is an independent linear script, so each gets its own     *)
(* specification over its own group of variables:                          *)
(*   SpecCoin  Bayesics_Coin.ipynb, coin-bias filtering                    *)
(*   SpecMAB   Bayesics_Coin.ipynb, multi-armed bandit                     *)
(*   SpecVB    the variational-Bayes notebook (unnamed/part_000)           *)
(*   SpecVBData  the same notebook, the cells that generate the data       *)
(*   SpecMCMC  Explore_MCMC.ipynb, the ODE right-hand side                 *)
(*   SpecUKF   Explore_UKF.ipynb, simulation and recursive estimation      *)
(*                                                                         *)
(* Real numbers are modelled as exact rationals <<num, den>> in lowest     *)
(* terms with den > 0; the rounding of 64-bit floating point is not        *)
(* modelled.                                                               *)
(***************************************************************************)
EXTENDS Integers, Sequences, FiniteSets, TLC

VARIABLES
    \* --- Bayesics_Coin.ipynb: coin ---
    prior_init,     \* parameters [alpha, beta] of the initial prior
    obs,            \* observations, a Vector{Bool}
    post,           \* make_gif_recursive: the running posterior
    n,              \* make_gif_recursive: number of loop iterations done
    frames,         \* make_gif_recursive: the frames of the gif, <<title n, post>>
    post_final,     \* result of post_batch, or NotComputed
    \* --- Bayesics_Coin.ipynb: multi-armed bandit ---
    true_ps,        \* success probability of every arm
    sample_size,    \* number of pulls asked for
    pcMAB,          \* "random", "explore" or "done": the call in progress
    rs_successes,   \* random_selection: successes
    rs_history,     \* random_selection: outcome of every pull so far
    dist_random,    \* value returned by random_selection, or NotComputed
    posts,          \* explore_and_exploit: posterior [alpha, beta] of every arm
    successes,      \* explore_and_exploit: successes
    ee_history,     \* explore_and_exploit: <<arm, outcome>> of every pull so far
    dist_explore_exploit, \* value returned by explore_and_exploit, or NotComputed
    \* --- unnamed/part_000: variational Bayes on the 2- and 3-block system ---
    D,              \* latent dimension: 2 or 3 blocks
    ks,             \* conduction coefficients: <<k>> or <<k12, k23>>
    Dt,             \* time step of the discretisation
    mcp,            \* heat capacities mcp_1..mcp_D, the diagonal of Mconst
    a,              \* true transition matrix A
    inferred_A,     \* MAP estimate of A returned by the inference
    inferred_K,     \* back-transformed conduction matrix
    inferred_ks,    \* point estimates: <<inferred_k>> or <<inferred_k12, inferred_k23>>
    rel_error,      \* the reported (inferred_A_medium_precision - a) / a
    pcVB,           \* "build", "infer", "report", "back" or "done"; while the data are
                    \* generated "x0", "y0", "loop" or "generated"
    N_vb,           \* N, the number of observations
    x_data,         \* x = np.empty((N, D)): the latent states, one row per time
    y_data,         \* y = np.empty((N, M)): the observations, one row per time
    iter,           \* data-generation loop: iterations done
    x_writes,       \* how often every row of x has been assigned
    y_writes,       \* how often every row of y has been assigned
    noise_x,        \* the process-noise term added into every row of x
    noise_y,        \* the measurement-noise term added into every row of y
    read_uninit,    \* TRUE once a row of x was read before it was assigned
    \* --- Explore_MCMC.ipynb: one call LSSM_lump(dT, T, p, t) ---
    ode_p,          \* the parameter vector p, with sin(omega_i * t) in place of omega_i and t
    ode_T,          \* the state T
    ode_dT,         \* the output buffer dT, written in place
    pcODE,          \* "conduction", "convection", "input" or "done"
    \* --- Explore_UKF.ipynb: 1-block simulation and recursive estimation ---
    ukf_par,        \* Dt, h_a, A, m, cp
    N,              \* time horizon: N steps, N + 1 temperatures
    T_a,            \* ambient temperature
    T_,             \* temperature state, N + 1 entries
    sim_n,          \* simulation loop: iterations done
    y_,             \* observations, N + 1 entries, or NotComputed
    m_x_t,          \* posterior means of x, N + 1 entries
    v_x_t,          \* posterior variances of x
    m_theta_t,      \* posterior means of theta
    v_theta_t,      \* posterior variances of theta
    m_x_tmin1,      \* prior mean of x for the next step
    v_x_tmin1,      \* prior variance of x for the next step
    m_theta_tmin1,  \* prior mean of theta for the next step
    v_theta_tmin1,  \* prior variance of theta for the next step
    data,           \* the Dict last handed to step!, or NotComputed
    t,              \* estimation loop: iterations done
    pcUKF           \* "simulate", "observe", "estimate" or "done"

coinVars == <<prior_init, obs, post, n, frames, post_final>>
mabVars == <<true_ps, sample_size, pcMAB, rs_successes, rs_history, dist_random,
             posts, successes, ee_history, dist_explore_exploit>>

dataVars == <<N_vb, x_data, y_data, iter, x_writes, y_writes, noise_x, noise_y,
              read_uninit>>
vbVars == <<D, ks, Dt, mcp, a, inferred_A, inferred_K, inferred_ks, rel_error, pcVB,
            dataVars>>

odeVars == <<ode_p, ode_T, ode_dT, pcODE>>

simVars == <<ukf_par, N, T_a, T_, sim_n, y_>>
estVars == <<m_x_t, v_x_t, m_theta_t, v_theta_t, m_x_tmin1, v_x_tmin1,
             m_theta_tmin1, v_theta_tmin1, data, t>>
ukfVars == <<simVars, estVars, pcUKF>>

vars == <<coinVars, mabVars, vbVars, odeVars, ukfVars>>

NotComputed == "not computed"

\* ------------------------------------------------------------------------
\* Bounds of the model
\* ------------------------------------------------------------------------
MaxPrior == 2       \* prior parameters alpha, beta range over 0..MaxPrior
MaxObs == 3         \* at most MaxObs observations

\* ------------------------------------------------------------------------
\* Exact rational arithmetic
\* ------------------------------------------------------------------------
Abs(i) == IF i < 0 THEN -i ELSE i

RECURSIVE GCD(_, _)
GCD(i, j) == IF j = 0 THEN i ELSE GCD(j, i % j)

\* the rational num/den (den # 0) in lowest terms with a positive denominator
Rat(num, den) ==
    LET g == GCD(Abs(num), Abs(den))
        s == IF den < 0 THEN -1 ELSE 1
    IN  <<(s * num) \div g, (s * den) \div g>>

RInt(i) == <<i, 1>>
RAdd(x, y) == Rat(x[1] * y[2] + y[1] * x[2], x[2] * y[2])
RSub(x, y) == Rat(x[1] * y[2] - y[1] * x[2], x[2] * y[2])
RMul(x, y) == Rat(x[1] * y[1], x[2] * y[2])
RDiv(x, y) == Rat(x[1] * y[2], x[2] * y[1])
RNeg(x) == <<-x[1], x[2]>>
RLt(x, y) == x[1] * y[2] < y[1] * x[2]
RLe(x, y) == x[1] * y[2] <= y[1] * x[2]
RAbs(x) == <<Abs(x[1]), x[2]>>
RZero == RInt(0)
ROne == RInt(1)

\* ------------------------------------------------------------------------
\* Bayesics_Coin.ipynb: coin-bias filtering
\* ------------------------------------------------------------------------
\* Julia's conversion of a Bool in arithmetic: true -> 1, false -> 0
BoolInt(y) == IF y THEN 1 ELSE 0

\* sum(data) of a Vector{Bool}
RECURSIVE Sum(_)
Sum(flips) == IF flips = <<>> THEN 0 ELSE BoolInt(Head(flips)) + Sum(Tail(flips))

PostRecursiveSwapped(prior, y) ==
    <<prior[1] + (1 - BoolInt(y)), prior[2] + BoolInt(y)>>

\* post_recursive(prior, y::Bool) = prior .+ [y, 1 - y]
post_recursive(prior, y) ==
    <<prior[1] + BoolInt(y), prior[2] + (1 - BoolInt(y))>>

PostBatchHeadsOnly(prior, flips) ==
    <<prior[1] + Sum(flips), prior[2] + Len(flips)>>

\* post_batch(prior, data) = prior .+ [sum(data), length(data) - sum(data)]
post_batch(prior, flips) ==
    <<prior[1] + Sum(flips), prior[2] + (Len(flips) - Sum(flips))>>

\* the other notebooks' variables while this one runs
CoinIdle ==
    /\ prior_init = <<1, 1>> /\ obs = <<>> /\ post = <<1, 1>> /\ n = 0
    /\ frames = <<>> /\ post_final = NotComputed

MABIdle ==
    /\ true_ps = <<>> /\ sample_size = 0 /\ pcMAB = "idle"
    /\ rs_successes = 0 /\ rs_history = <<>> /\ dist_random = NotComputed
    /\ posts = <<>> /\ successes = 0 /\ ee_history = <<>>
    /\ dist_explore_exploit = NotComputed

DataIdle ==
    /\ N_vb = 0 /\ x_data = <<>> /\ y_data = <<>> /\ iter = 0
    /\ x_writes = <<>> /\ y_writes = <<>> /\ noise_x = <<>> /\ noise_y = <<>>
    /\ read_uninit = FALSE

VBIdle ==
    /\ DataIdle
    /\ D = 0 /\ ks = <<>> /\ Dt = ROne /\ mcp = <<>> /\ a = <<>>
    /\ inferred_A = NotComputed /\ inferred_K = NotComputed
    /\ inferred_ks = NotComputed /\ rel_error = NotComputed /\ pcVB = "idle"

ODEIdle == ode_p = <<>> /\ ode_T = <<>> /\ ode_dT = <<>> /\ pcODE = "idle"

UKFIdle ==
    /\ ukf_par = <<>> /\ N = 0 /\ T_a = RZero /\ T_ = <<>> /\ sim_n = 0
    /\ y_ = NotComputed
    /\ m_x_t = <<>> /\ v_x_t = <<>> /\ m_theta_t = <<>> /\ v_theta_t = <<>>
    /\ m_x_tmin1 = 0 /\ v_x_tmin1 = 0 /\ m_theta_tmin1 = 0 /\ v_theta_tmin1 = 0
    /\ data = NotComputed /\ t = 0 /\ pcUKF = "idle"

BoolSeqs(len) == UNION {[1..l -> BOOLEAN] : l \in 0..len}

CoinInit ==
    /\ prior_init \in (0..MaxPrior) \X (0..MaxPrior)
    /\ obs \in BoolSeqs(MaxObs)
    /\ post = prior_init            \* post = prior
    /\ n = 0
    /\ frames = <<>>
    /\ post_final = NotComputed
    /\ MABIdle /\ VBIdle /\ ODEIdle /\ UKFIdle

EnumerateFromZero(flips) == [i \in 1..Len(flips) |-> <<i - 1, flips[i]>>]

\* enumerate(data): the pairs (index, element), counted from 1
enumerate(flips) == [i \in 1..Len(flips) |-> <<i, flips[i]>>]

\* one iteration of `@gif for (n, y) in enumerate(data)`
GifStep ==
    /\ n < Len(obs)
    /\ LET pair == enumerate(obs)[n + 1]
           y == pair[2]
           new == post_recursive(post, y)
       IN  /\ post' = new
           /\ n' = n + 1
           /\ frames' = Append(frames, <<pair[1], new>>)     \* title "... $n ..."
    /\ UNCHANGED <<prior_init, obs, post_final>>
    /\ UNCHANGED <<mabVars, vbVars, odeVars, ukfVars>>

\* post_final = post_batch(prior_init, obs)
BatchCell ==
    /\ post_final = NotComputed
    /\ post_final' = post_batch(prior_init, obs)
    /\ UNCHANGED <<prior_init, obs, post, n, frames>>
    /\ UNCHANGED <<mabVars, vbVars, odeVars, ukfVars>>

CoinNext == GifStep \/ BatchCell

SpecCoin == CoinInit /\ [][CoinNext]_vars

\* C1: one call of post_recursive adds exactly 1 to alpha and nothing to
\* beta when the observation is heads, and exactly 1 to beta and nothing to
\* alpha when it is tails.
C1_ConjugateUpdate ==
    [][n' = n + 1 =>
        /\ obs[n'] => post' = <<post[1] + 1, post[2]>>
        /\ ~obs[n'] => post' = <<post[1], post[2] + 1>>]_vars

C1_Witness == n >= 2 /\ obs[1] /\ ~obs[2]

\* C2: once the recursive loop has consumed every observation, its posterior
\* equals the batch posterior of the same prior and observations.
C2_BatchEqualsRecursive ==
    (n = Len(obs) /\ post_final # NotComputed) => post = post_final

C2_Witness ==
    /\ n = Len(obs) /\ post_final # NotComputed
    /\ Len(obs) >= 3 /\ obs[1] /\ ~obs[2] /\ obs[3]

\* variance alpha * beta / ((alpha + beta)^2 (alpha + beta + 1)) of Beta(alpha, beta)
BetaVariance(ab) ==
    Rat(ab[1] * ab[2], (ab[1] + ab[2]) * (ab[1] + ab[2]) * (ab[1] + ab[2] + 1))

\* the posterior shown in frame i of the gif; frame 0 stands for the prior
PostAt(i) == IF i = 0 THEN prior_init ELSE frames[i][2]

\* C11 as stated: for a prior with alpha, beta >= 1 no observation increases
\* the variance of the posterior.
C11_VarianceNeverGrows ==
    (prior_init[1] >= 1 /\ prior_init[2] >= 1) =>
        \A i \in 1..Len(frames) :
            RLe(BetaVariance(PostAt(i)), BetaVariance(PostAt(i - 1)))

\* C11, amended: for a prior with alpha, beta >= 1 the variance after an
\* observation is no larger than before exactly when c * (3 s + 2) >= s^2,
\* with s = alpha + beta and c the parameter the observation increases
\* (alpha on heads, beta on tails); otherwise it is strictly larger.
C11_VarianceShrinksIff ==
    (prior_init[1] >= 1 /\ prior_init[2] >= 1) =>
        \A i \in 1..Len(frames) :
            LET before == PostAt(i - 1)
                c == IF obs[i] THEN before[1] ELSE before[2]
                s == before[1] + before[2]
            IN  RLe(BetaVariance(PostAt(i)), BetaVariance(before))
                    <=> c * (3 * s + 2) >= s * s

C11_Witness ==
    /\ prior_init = <<1, 1>> /\ obs = <<TRUE, TRUE, FALSE>> /\ Len(frames) = 3
    /\ RLt(BetaVariance(PostAt(2)), BetaVariance(PostAt(1)))
    /\ RLt(BetaVariance(PostAt(2)), BetaVariance(PostAt(3)))

\* C12: for the prior [1, 1] and a fixed number of observations, the
\* variance of the batch posterior is the variance determined by the number
\* of heads alone, and no sample whose number of heads is at least as far
\* from half the observations has a larger variance.
C12_BiasNarrows ==
    (prior_init = <<1, 1>> /\ post_final # NotComputed) =>
        LET len == Len(obs)
            h == Sum(obs)
        IN  \A g \in 0..len :
                LET other == BetaVariance(<<1 + g, 1 + len - g>>)
                IN  /\ g = h => other = BetaVariance(post_final)
                    /\ Abs(2 * g - len) >= Abs(2 * h - len)
                          => RLe(other, BetaVariance(post_final))

C12_Witness ==
    /\ prior_init = <<1, 1>> /\ post_final # NotComputed
    /\ obs = <<FALSE, TRUE, FALSE>>
    /\ RLt(BetaVariance(<<4, 1>>), BetaVariance(post_final))

\* C13: the gif has one frame per loop iteration; frame i is titled i and
\* shows the prior updated with exactly the first i observations, and it is
\* the posterior of frame i - 1 (the prior for i = 1) updated with
\* observation i alone.
C13_FramesFollowObservations ==
    /\ Len(frames) = n /\ n <= Len(obs)
    /\ post = PostAt(n)
    /\ \A i \in 1..Len(frames) :
         LET heads == Sum(SubSeq(obs, 1, i))
             before == PostAt(i - 1)
         IN  /\ frames[i][1] = i
             /\ frames[i][2] = <<prior_init[1] + heads, prior_init[2] + (i - heads)>>
             /\ frames[i][2] = IF obs[i] THEN <<before[1] + 1, before[2]>>
                                         ELSE <<before[1], before[2] + 1>>

C13_Witness ==
    /\ obs = <<TRUE, FALSE, FALSE>> /\ prior_init = <<1, 2>>
    /\ frames = <<<<1, <<2, 2>>>>, <<2, <<2, 3>>>>, <<3, <<2, 4>>>>>>

\* ------------------------------------------------------------------------
\* Bayesics_Coin.ipynb: multi-armed bandit
\* ------------------------------------------------------------------------
\* Resolution of the grid on which quantiles are located: a quantile is
\* g / GridRes for some g in 0..GridRes.
GridRes == 1000

\* Natural numbers too large for a machine integer: little-endian digit
\* sequences in base BigBase without leading zeros, <<>> being 0.
BigBase == 10 * GridRes

RECURSIVE BigMulC(_, _, _)
BigMulC(x, m, c) ==
    IF x = <<>>
    THEN IF c = 0 THEN <<>> ELSE <<c % BigBase>> \o BigMulC(<<>>, m, c \div BigBase)
    ELSE LET v == Head(x) * m + c
         IN  <<v % BigBase>> \o BigMulC(Tail(x), m, v \div BigBase)

\* x * m for a machine integer 0 <= m <= BigBase
BigMul(x, m) == IF m = 0 THEN <<>> ELSE BigMulC(x, m, 0)

RECURSIVE BigAddC(_, _, _)
BigAddC(x, y, c) ==
    IF x = <<>> /\ y = <<>>
    THEN IF c = 0 THEN <<>> ELSE <<c>>
    ELSE LET dx == IF x = <<>> THEN 0 ELSE Head(x)
             dy == IF y = <<>> THEN 0 ELSE Head(y)
             v == dx + dy + c
         IN  <<v % BigBase>> \o BigAddC(IF x = <<>> THEN <<>> ELSE Tail(x),
                                       IF y = <<>> THEN <<>> ELSE Tail(y),
                                       v \div BigBase)

BigAdd(x, y) == BigAddC(x, y, 0)

RECURSIVE BigPowMul(_, _, _)
\* x * m^e
BigPowMul(x, m, e) == IF e = 0 THEN x ELSE BigPowMul(BigMul(x, m), m, e - 1)

RECURSIVE BigGeFrom(_, _, _)
BigGeFrom(x, y, i) ==
    IF i = 0 THEN TRUE
    ELSE IF x[i] # y[i] THEN x[i] > y[i]
    ELSE BigGeFrom(x, y, i - 1)

\* x >= y
BigGe(x, y) ==
    IF Len(x) # Len(y) THEN Len(x) > Len(y) ELSE BigGeFrom(x, y, Len(x))

RECURSIVE Binomial(_, _)
Binomial(m, j) ==
    IF j = 0 \/ j = m THEN 1 ELSE Binomial(m - 1, j - 1) + Binomial(m - 1, j)

RECURSIVE BetaCdfSum(_, _, _, _)
\* GridRes^m times the tail sum_{i >= j} C(m, i) x^i (1 - x)^(m - i) at x = g / GridRes
BetaCdfSum(m, j, g, acc) ==
    IF j > m THEN acc
    ELSE BetaCdfSum(m, j + 1, g,
            BigAdd(acc, BigMul(BigPowMul(BigPowMul(<<1>>, g, j), GridRes - g, m - j),
                               Binomial(m, j))))

\* cdf(Beta(alpha, beta), g / GridRes) >= 0.975 for integers alpha, beta >= 1, by
\* cdf(Beta(alpha, beta), x) = P(Binomial(alpha + beta - 1, x) >= alpha); 0.975 is 39 / 40
BetaCdfReaches(alpha, beta, g) ==
    LET m == alpha + beta - 1
    IN  BigGe(BigMul(BetaCdfSum(m, alpha, g, <<>>), 40),
              BigMul(BigPowMul(<<1>>, GridRes, m), 39))

RECURSIVE QuantileSearch(_, _, _, _)
QuantileSearch(alpha, beta, lo, hi) ==
    IF lo >= hi THEN lo
    ELSE LET mid == (lo + hi) \div 2
         IN  IF BetaCdfReaches(alpha, beta, mid)
             THEN QuantileSearch(alpha, beta, lo, mid)
             ELSE QuantileSearch(alpha, beta, mid + 1, hi)

\* quantile(Beta(alpha, beta), 0.975), rounded up to the grid: the least g with
\* cdf(Beta(alpha, beta), g / GridRes) >= 0.975
quantile(alpha, beta) == QuantileSearch(alpha, beta, 0, GridRes)

MaxArms == 3        \* 1..MaxArms arms
MaxPulls == 3       \* sample_size ranges over 0..MaxPulls

\* the quantiles of every posterior MaxPulls pulls can lead to, computed once
QuantileTable ==
    [ab \in (1..(MaxPulls + 1)) \X (1..(MaxPulls + 1)) |->
        IF ab[1] + ab[2] <= MaxPulls + 2 THEN quantile(ab[1], ab[2]) ELSE 0]

\* cred_int_tops = [quantile(Beta(post[1], post[2]), 0.975) for post in posts]
cred_int_tops(ps) == [i \in 1..Len(ps) |-> QuantileTable[ps[i]]]

RECURSIVE ArgmaxScan(_, _, _)
\* Julia's argmax: scan left to right, keep the first index of the maximum
ArgmaxScan(xs, i, best) ==
    IF i > Len(xs) THEN best
    ELSE ArgmaxScan(xs, i + 1, IF xs[i] > xs[best] THEN i ELSE best)

RECURSIVE ArgminScan(_, _, _)
ArgminScan(xs, i, best) ==
    IF i > Len(xs) THEN best
    ELSE ArgminScan(xs, i + 1, IF xs[i] < xs[best] THEN i ELSE best)

Argmin(xs) == ArgminScan(xs, 2, 1)

argmax(xs) == ArgmaxScan(xs, 2, 1)

\* choose_arm(posts) = argmax(cred_int_tops)[1]
choose_arm(ps) == argmax(cred_int_tops(ps))

\* the values one call of choose_arm(ps) can return
ChooseArmOutcomes(ps) == {choose_arm(ps)}

\* the arms whose top of the credible interval is maximal
TiedArms(ps) ==
    LET tops == cred_int_tops(ps)
    IN  {i \in 1..Len(ps) : \A j \in 1..Len(ps) : tops[i] >= tops[j]}

\* the values rand(Bernoulli(p)) can return
Bernoulli(p) == {s \in BOOLEAN : (s => RLt(RZero, p)) /\ (~s => RLt(p, ROne))}

\* success probabilities an arm can have: rand() lies in [0, 1)
PChoices == {RZero, Rat(1, 2)}

\* priors_init = [[1, 1] for _ in 1:N_arms]
priors_init(arms) == [i \in 1..arms |-> <<1, 1>>]

\* the range `1:sample_size` of both loops
LoopRange(size) == 1..size

DivideByNext(x, y) == Rat(x, y + 1)

\* x / y of two Ints, a Float64: 0 / 0 is NaN and x / 0 is Inf
Divide(x, y) == IF y = 0 THEN (IF x = 0 THEN "NaN" ELSE "Inf") ELSE Rat(x, y)

MABInit ==
    /\ \E arms \in 1..MaxArms : true_ps \in [1..arms -> PChoices]
    /\ sample_size \in 0..MaxPulls
    /\ pcMAB = "random"
    /\ rs_successes = 0
    /\ rs_history = <<>>
    /\ dist_random = NotComputed
    /\ posts = priors_init(Len(true_ps))    \* posts = copy(priors)
    /\ successes = 0
    /\ ee_history = <<>>
    /\ dist_explore_exploit = NotComputed
    /\ CoinIdle /\ VBIdle /\ ODEIdle /\ UKFIdle

\* random_selection: one iteration of the loop
RandomPull ==
    /\ pcMAB = "random"
    /\ Len(rs_history) < Cardinality(LoopRange(sample_size))
    /\ \E i \in 1..Len(true_ps) :
         \E s \in Bernoulli(true_ps[i]) :      \* p_cur = rand(true_ps)
            /\ rs_successes' = rs_successes + BoolInt(s)
            /\ rs_history' = Append(rs_history, s)
    /\ UNCHANGED <<true_ps, sample_size, pcMAB, dist_random, posts, successes,
                   ee_history, dist_explore_exploit>>
    /\ UNCHANGED <<coinVars, vbVars, odeVars, ukfVars>>

\* random_selection: return successes / sample_size
RandomReturn ==
    /\ pcMAB = "random"
    /\ Len(rs_history) = Cardinality(LoopRange(sample_size))
    /\ dist_random' = Divide(rs_successes, sample_size)
    /\ pcMAB' = "explore"
    /\ UNCHANGED <<true_ps, sample_size, rs_successes, rs_history, posts, successes,
                   ee_history, dist_explore_exploit>>
    /\ UNCHANGED <<coinVars, vbVars, odeVars, ukfVars>>

\* explore_and_exploit: one iteration of the loop
ExplorePull ==
    /\ pcMAB = "explore"
    /\ Len(ee_history) < Cardinality(LoopRange(sample_size))
    /\ \E arm \in ChooseArmOutcomes(posts) :
         \E success \in Bernoulli(true_ps[arm]) :
            /\ posts' = [posts EXCEPT ![arm] = post_recursive(posts[arm], success)]
            /\ successes' = successes + BoolInt(success)
            /\ ee_history' = Append(ee_history, <<arm, success>>)
    /\ UNCHANGED <<true_ps, sample_size, pcMAB, rs_successes, rs_history, dist_random,
                   dist_explore_exploit>>
    /\ UNCHANGED <<coinVars, vbVars, odeVars, ukfVars>>

\* explore_and_exploit: return successes / sample_size
ExploreReturn ==
    /\ pcMAB = "explore"
    /\ Len(ee_history) = Cardinality(LoopRange(sample_size))
    /\ dist_explore_exploit' = Divide(successes, sample_size)
    /\ pcMAB' = "done"
    /\ UNCHANGED <<true_ps, sample_size, rs_successes, rs_history, dist_random, posts,
                   successes, ee_history>>
    /\ UNCHANGED <<coinVars, vbVars, odeVars, ukfVars>>

MABNext == RandomPull \/ RandomReturn \/ ExplorePull \/ ExploreReturn

SpecMAB == MABInit /\ [][MABNext]_vars

\* Distinct posteriors have distinct quantiles on the grid, so the order of
\* the grid quantiles is the order of the exact quantiles.
QuantileGridSeparates ==
    \A ab, cd \in DOMAIN QuantileTable :
        (/\ ab[1] + ab[2] <= MaxPulls + 2
         /\ cd[1] + cd[2] <= MaxPulls + 2
         /\ ab # cd) => QuantileTable[ab] # QuantileTable[cd]

\* outcomes of the pulls of explore_and_exploit so far
EEOutcomes == [i \in 1..Len(ee_history) |-> ee_history[i][2]]

\* C3: every pull of explore_and_exploit pulls an existing arm whose 97.5 %
\* quantile, under the posteriors at the time of the choice, is at least
\* that of every other arm.
C3_ChoosesMaximalTop ==
    [][Len(ee_history') = Len(ee_history) + 1 =>
        LET arm == ee_history'[Len(ee_history')][1]
            tops == cred_int_tops(posts)
        IN  /\ arm \in 1..Len(posts)
            /\ \A j \in 1..Len(posts) : tops[arm] >= tops[j]]_vars

C3_Witness ==
    /\ Len(ee_history) >= 3
    /\ ee_history[1] = <<1, FALSE>>
    /\ ee_history[2][1] = 2
    /\ ee_history[3][1] = 3

\* C4: whenever explore_and_exploit is about to choose an arm, every arm
\* that attains the maximal top of the credible interval is a possible
\* result of choose_arm.
C4_TiesBrokenAtRandom ==
    (pcMAB = "explore" /\ Len(ee_history) < sample_size)
        => TiedArms(posts) \subseteq ChooseArmOutcomes(posts)

\* C10: for sample_size >= 1 both strategies return the number of successful
\* pulls over sample_size, after exactly sample_size pulls.
C10_AverageGain ==
    sample_size >= 1 =>
        /\ dist_random # NotComputed =>
             /\ Len(rs_history) = sample_size
             /\ Sum(rs_history) \in 0..sample_size
             /\ dist_random = Rat(Sum(rs_history), sample_size)
        /\ dist_explore_exploit # NotComputed =>
             /\ Len(ee_history) = sample_size
             /\ Sum(EEOutcomes) \in 0..sample_size
             /\ dist_explore_exploit = Rat(Sum(EEOutcomes), sample_size)

C10_Witness ==
    /\ pcMAB = "done" /\ sample_size = 3
    /\ dist_random = Rat(1, 3) /\ dist_explore_exploit = Rat(2, 3)

\* ------------------------------------------------------------------------
\* unnamed/part_000: transition matrix and back-transformation
\* ------------------------------------------------------------------------
\* A matrix is a sequence of rows; the source's index [i, j] is [i + 1][j + 1].
MaxK == 2           \* conduction coefficients range over -1..MaxK
MaxMcp == 2         \* heat capacities range over 1..MaxMcp
MaxDt == 2          \* time steps are d and 1/d for d in 1..MaxDt

\* np.identity(dim)
identity(dim) == [i \in 1..dim |-> [j \in 1..dim |-> IF i = j THEN ROne ELSE RZero]]

\* np.diag(v)
diag(v) == [i \in 1..Len(v) |-> [j \in 1..Len(v) |-> IF i = j THEN RInt(v[i]) ELSE RZero]]

\* np.linalg.inv of a diagonal matrix with a non-zero diagonal
inv(M) == [i \in 1..Len(M) |-> [j \in 1..Len(M) |-> IF i = j THEN RDiv(ROne, M[i][i]) ELSE RZero]]

RECURSIVE DotFrom(_, _, _, _, _)
DotFrom(X, Y, i, j, l) ==
    IF l > Len(Y) THEN RZero
    ELSE RAdd(RMul(X[i][l], Y[l][j]), DotFrom(X, Y, i, j, l + 1))

\* np.matmul(X, Y)
matmul(X, Y) == [i \in 1..Len(X) |-> [j \in 1..Len(Y[1]) |-> DotFrom(X, Y, i, j, 1)]]

MatAdd(X, Y) == [i \in 1..Len(X) |-> [j \in 1..Len(X[i]) |-> RAdd(X[i][j], Y[i][j])]]
MatSub(X, Y) == [i \in 1..Len(X) |-> [j \in 1..Len(X[i]) |-> RSub(X[i][j], Y[i][j])]]
MatScale(c, X) == [i \in 1..Len(X) |-> [j \in 1..Len(X[i]) |-> RMul(c, X[i][j])]]
MatDiv(X, c) == [i \in 1..Len(X) |-> [j \in 1..Len(X[i]) |-> RDiv(X[i][j], c)]]

K2Unsigned(k) == <<<<RInt(-k), RInt(k)>>, <<RInt(k), RInt(k)>>>>

\* np.array([[-k, k], [k, -k]])
K2(k) == <<<<RInt(-k), RInt(k)>>, <<RInt(k), RInt(-k)>>>>

\* np.array([[-k12, k12, 0], [k12, -(k12 + k23), k23], [0, k23, -k23]])
K3(k12, k23) ==
    <<<<RInt(-k12), RInt(k12), RZero>>,
      <<RInt(k12), RInt(-(k12 + k23)), RInt(k23)>>,
      <<RZero, RInt(k23), RInt(-k23)>>>>

\* a = np.identity(D) + Dt * np.matmul(np.linalg.inv(Mconst), K)
TransitionMatrix(dim, step, Mconst, K) ==
    MatAdd(identity(dim), MatScale(step, matmul(inv(Mconst), K)))

BackTransformKeepsIdentity(dim, step, Mconst, A) == MatDiv(matmul(Mconst, A), step)

\* inferred_K = np.matmul(Mconst, inferred_A - np.identity(D)) / Dt
BackTransform(dim, step, Mconst, A) ==
    MatDiv(matmul(Mconst, MatSub(A, identity(dim))), step)

\* inferred_k = (-K[0, 0] + K[0, 1] + K[1, 0] - K[1, 1]) / 4
PointEstimate2(K) ==
    RDiv(RSub(RAdd(RAdd(RNeg(K[1][1]), K[1][2]), K[2][1]), K[2][2]), RInt(4))

\* inferred_k12 = (-K[0, 0] + K[1, 0] + K[0, 1]) / 3
PointEstimate12(K) == RDiv(RAdd(RAdd(RNeg(K[1][1]), K[2][1]), K[1][2]), RInt(3))

\* inferred_k23 = (-K[2, 2] + K[2, 1] + K[1, 2]) / 3
PointEstimate23(K) == RDiv(RAdd(RAdd(RNeg(K[3][3]), K[3][2]), K[2][3]), RInt(3))

DtChoices == {Rat(d, 1) : d \in 1..MaxDt} \cup {Rat(1, d) : d \in 1..MaxDt}

\* What the inference can return for A: the true matrix, or the true matrix
\* off by one half in one diagonal entry or in its top right entry.
Estimates(A) ==
    {A} \cup {[A EXCEPT ![i][i] = RAdd(A[i][i], Rat(1, 2))] : i \in 1..Len(A)}
        \cup {[A EXCEPT ![1][Len(A)] = RAdd(A[1][Len(A)], Rat(1, 2))]}

\* numpy's x / y on 64-bit floats: a zero divisor gives no exception but
\* nan (0/0), inf or -inf, written here <<0, 0>>, <<1, 0>> and <<-1, 0>>
FloatDiv(x, y) ==
    IF y[1] = 0
    THEN <<(IF x[1] > 0 THEN 1 ELSE IF x[1] < 0 THEN -1 ELSE 0), 0>>
    ELSE RDiv(x, y)

\* X / Y of two arrays of the same shape
ElementwiseDiv(X, Y) ==
    [i \in 1..Len(X) |-> [j \in 1..Len(X[i]) |-> FloatDiv(X[i][j], Y[i][j])]]

VBInit ==
    /\ D \in {2, 3}
    /\ ks \in [1..(D - 1) -> (-1)..MaxK]
    /\ Dt \in DtChoices
    /\ mcp \in [1..D -> 1..MaxMcp]
    /\ a = <<>>
    /\ inferred_A = NotComputed
    /\ inferred_K = NotComputed
    /\ inferred_ks = NotComputed
    /\ rel_error = NotComputed
    /\ pcVB = "build"
    /\ DataIdle
    /\ CoinIdle /\ MABIdle /\ ODEIdle /\ UKFIdle

\* 2-block cell: Mconst, a
BuildA2 ==
    /\ pcVB = "build" /\ D = 2
    /\ a' = TransitionMatrix(2, Dt, diag(mcp), K2(ks[1]))
    /\ pcVB' = "infer"
    /\ UNCHANGED <<D, ks, Dt, mcp, inferred_A, inferred_K, inferred_ks>>
    /\ UNCHANGED rel_error
    /\ UNCHANGED dataVars
    /\ UNCHANGED <<coinVars, mabVars, odeVars, ukfVars>>

\* 3-block cell: Mconst, a
BuildA3 ==
    /\ pcVB = "build" /\ D = 3
    /\ a' = TransitionMatrix(3, Dt, diag(mcp), K3(ks[1], ks[2]))
    /\ pcVB' = "infer"
    /\ UNCHANGED <<D, ks, Dt, mcp, inferred_A, inferred_K, inferred_ks>>
    /\ UNCHANGED rel_error
    /\ UNCHANGED dataVars
    /\ UNCHANGED <<coinVars, mabVars, odeVars, ukfVars>>

\* the inference library returns its estimate of A
Infer ==
    /\ pcVB = "infer"
    /\ inferred_A' \in Estimates(a)
    /\ pcVB' = IF D = 3 THEN "report" ELSE "back"
    /\ UNCHANGED <<D, ks, Dt, mcp, a, inferred_K, inferred_ks>>
    /\ UNCHANGED rel_error
    /\ UNCHANGED dataVars
    /\ UNCHANGED <<coinVars, mabVars, odeVars, ukfVars>>

\* 3-block cell: inferred_A, a, (inferred_A_medium_precision - a) / a
ReportRelativeError ==
    /\ pcVB = "report" /\ D = 3
    /\ rel_error' = ElementwiseDiv(MatSub(inferred_A, a), a)
    /\ pcVB' = "back"
    /\ UNCHANGED <<D, ks, Dt, mcp, a, inferred_A, inferred_K, inferred_ks>>
    /\ UNCHANGED dataVars
    /\ UNCHANGED <<coinVars, mabVars, odeVars, ukfVars>>

\* 2-block cell: inferred_K, inferred_k
BackTransform2 ==
    /\ pcVB = "back" /\ D = 2
    /\ LET K == BackTransform(2, Dt, diag(mcp), inferred_A)
       IN  /\ inferred_K' = K
           /\ inferred_ks' = <<PointEstimate2(K)>>
    /\ pcVB' = "done"
    /\ UNCHANGED <<D, ks, Dt, mcp, a, inferred_A>>
    /\ UNCHANGED rel_error
    /\ UNCHANGED dataVars
    /\ UNCHANGED <<coinVars, mabVars, odeVars, ukfVars>>

\* 3-block cell: inferred_K, inferred_k12, inferred_k23
BackTransform3 ==
    /\ pcVB = "back" /\ D = 3
    /\ LET K == BackTransform(3, Dt, diag(mcp), inferred_A)
       IN  /\ inferred_K' = K
           /\ inferred_ks' = <<PointEstimate12(K), PointEstimate23(K)>>
    /\ pcVB' = "done"
    /\ UNCHANGED <<D, ks, Dt, mcp, a, inferred_A>>
    /\ UNCHANGED rel_error
    /\ UNCHANGED dataVars
    /\ UNCHANGED <<coinVars, mabVars, odeVars, ukfVars>>

VBNext ==
    BuildA2 \/ BuildA3 \/ Infer \/ ReportRelativeError \/ BackTransform2 \/ BackTransform3

SpecVB == VBInit /\ [][VBNext]_vars

\* C5: in the 2-block system, back-transforming the true transition matrix
\* gives the point estimate k_hat = k.
C5_TwoBlockRoundTrip ==
    (pcVB = "done" /\ D = 2 /\ inferred_A = a) => inferred_ks = <<RInt(ks[1])>>

C5_Witness ==
    /\ pcVB = "done" /\ D = 2 /\ inferred_A = a
    /\ ks[1] = 2 /\ Dt = Rat(1, 2) /\ mcp = <<2, 1>>

\* C6: in the 3-block system, back-transforming the true transition matrix
\* gives the point estimates k12 and k23.
C6_ThreeBlockRoundTrip ==
    (pcVB = "done" /\ D = 3 /\ inferred_A = a)
        => inferred_ks = <<RInt(ks[1]), RInt(ks[2])>>

C6_Witness ==
    /\ pcVB = "done" /\ D = 3 /\ inferred_A = a
    /\ ks = <<2, 1>> /\ Dt = Rat(1, 2) /\ mcp = <<2, 1, 2>>

\* C15: once the 3-block relative error has been reported, no entry of the
\* true transition matrix a is zero and every entry of the reported
\* relative error is a finite number.
C15_RelativeErrorDefined ==
    (D = 3 /\ pcVB \in {"back", "done"}) =>
        \A i \in 1..3, j \in 1..3 :
            a[i][j] # RZero /\ rel_error[i][j][2] # 0

\* ------------------------------------------------------------------------
\* unnamed/part_000: data generation (the cells under `# Generate data`)
\* ------------------------------------------------------------------------
\* A row index [i] of the source is [i + 1] here.
MaxRows == 3        \* N ranges over 1..MaxRows

x_1_0 == 270
x_2_0 == 330
x_3_0 == 320
std_noise_x == 0
std_noise_y == 1

\* a row of np.empty that has not been assigned yet: it holds no value
Uninit == <<>>

\* np.array([x_1_0, x_2_0]) and np.array([x_1_0, x_2_0, x_3_0])
InitialTemperatures(dim) ==
    [i \in 1..dim |-> RInt(<<x_1_0, x_2_0, x_3_0>>[i])]

VecAdd(v, w) == [i \in 1..Len(v) |-> RAdd(v[i], w[i])]
VecScale(c, v) == [i \in 1..Len(v) |-> RMul(RInt(c), v[i])]

RECURSIVE RowDotFrom(_, _, _, _)
RowDotFrom(X, v, i, l) ==
    IF l > Len(v) THEN RZero
    ELSE RAdd(RMul(X[i][l], v[l]), RowDotFrom(X, v, i, l + 1))

\* np.dot(X, v) of a matrix and a vector
dot(X, v) == [i \in 1..Len(X) |-> RowDotFrom(X, v, i, 1)]

\* np.empty((rows, dim))
empty(rows) == [i \in 1..rows |-> Uninit]

RangeShort(stop) == [i \in 1..(stop - 1) |-> i - 1]

\* range(stop): 0, 1, ..., stop - 1 in this order
range(stop) == [i \in 1..stop |-> i - 1]

\* the draws of np.random.randn(dim) the model follows
randn(dim) ==
    {[i \in 1..dim |-> RZero],
     [i \in 1..dim |-> IF i = 1 THEN ROne ELSE RNeg(ROne)]}

\* What reading row i of x yields: the row, or, if it has never been
\* assigned, whatever the allocation left there.
ReadRow(rows, i, dim) ==
    IF rows[i] = Uninit
    THEN {[j \in 1..dim |-> RZero], InitialTemperatures(dim)}
    ELSE {rows[i]}

\* after the cells above `# Generate data` and the two np.empty calls
DataInit ==
    /\ D \in {2, 3}
    /\ ks \in [1..(D - 1) -> 1..MaxK]
    /\ Dt = ROne
    /\ mcp \in [1..D -> 1..MaxMcp]
    /\ a = TransitionMatrix(D, Dt, diag(mcp),
                            IF D = 2 THEN K2(ks[1]) ELSE K3(ks[1], ks[2]))
    /\ inferred_A = NotComputed
    /\ inferred_K = NotComputed
    /\ inferred_ks = NotComputed
    /\ rel_error = NotComputed
    /\ pcVB = "x0"
    /\ N_vb \in 1..MaxRows
    /\ x_data = empty(N_vb) /\ y_data = empty(N_vb)
    /\ iter = 0
    /\ x_writes = [i \in 1..N_vb |-> 0] /\ y_writes = [i \in 1..N_vb |-> 0]
    /\ noise_x = [i \in 1..N_vb |-> Uninit] /\ noise_y = [i \in 1..N_vb |-> Uninit]
    /\ read_uninit = FALSE
    /\ CoinIdle /\ MABIdle /\ ODEIdle /\ UKFIdle

\* x[0] = np.array([x_1_0, ...])
AssignX0 ==
    /\ pcVB = "x0"
    /\ x_data' = [x_data EXCEPT ![1] = InitialTemperatures(D)]
    /\ x_writes' = [x_writes EXCEPT ![1] = @ + 1]
    /\ pcVB' = "y0"
    /\ UNCHANGED <<D, ks, Dt, mcp, a, inferred_A, inferred_K, inferred_ks>>
    /\ UNCHANGED rel_error
    /\ UNCHANGED <<N_vb, y_data, iter, y_writes, noise_x, noise_y, read_uninit>>
    /\ UNCHANGED <<coinVars, mabVars, odeVars, ukfVars>>

\* y[0] = x[0] + std_noise_y * np.random.randn(M)
AssignY0 ==
    /\ pcVB = "y0"
    /\ \E row \in ReadRow(x_data, 1, D), r \in randn(D) :
         LET w == VecScale(std_noise_y, r)
         IN  /\ y_data' = [y_data EXCEPT ![1] = VecAdd(row, w)]
             /\ noise_y' = [noise_y EXCEPT ![1] = w]
    /\ y_writes' = [y_writes EXCEPT ![1] = @ + 1]
    /\ read_uninit' = (read_uninit \/ x_data[1] = Uninit)
    /\ pcVB' = "loop"
    /\ UNCHANGED <<D, ks, Dt, mcp, a, inferred_A, inferred_K, inferred_ks>>
    /\ UNCHANGED rel_error
    /\ UNCHANGED <<N_vb, x_data, iter, x_writes, noise_x>>
    /\ UNCHANGED <<coinVars, mabVars, odeVars, ukfVars>>

\* one iteration of `for n in range(N - 1)`
GenerateStep ==
    /\ pcVB = "loop" /\ iter < Len(range(N_vb - 1))
    /\ LET m == range(N_vb - 1)[iter + 1]        \* the loop variable n
       IN  \E row \in ReadRow(x_data, m + 1, D), rx \in randn(D), ry \in randn(D) :
             LET v == VecScale(std_noise_x, rx)
                 w == VecScale(std_noise_y, ry)
                 new_x == VecAdd(dot(a, row), v)
             IN  /\ x_data' = [x_data EXCEPT ![m + 2] = new_x]
                 /\ y_data' = [y_data EXCEPT ![m + 2] = VecAdd(new_x, w)]
                 /\ noise_x' = [noise_x EXCEPT ![m + 2] = v]
                 /\ noise_y' = [noise_y EXCEPT ![m + 2] = w]
                 /\ x_writes' = [x_writes EXCEPT ![m + 2] = @ + 1]
                 /\ y_writes' = [y_writes EXCEPT ![m + 2] = @ + 1]
                 /\ read_uninit' = (read_uninit \/ x_data[m + 1] = Uninit)
    /\ iter' = iter + 1
    /\ UNCHANGED <<D, ks, Dt, mcp, a, inferred_A, inferred_K, inferred_ks, pcVB>>
    /\ UNCHANGED rel_error
    /\ UNCHANGED N_vb
    /\ UNCHANGED <<coinVars, mabVars, odeVars, ukfVars>>

\* the loop is exhausted
GenerateDone ==
    /\ pcVB = "loop" /\ iter = Len(range(N_vb - 1))
    /\ pcVB' = "generated"
    /\ UNCHANGED <<D, ks, Dt, mcp, a, inferred_A, inferred_K, inferred_ks>>
    /\ UNCHANGED rel_error
    /\ UNCHANGED dataVars
    /\ UNCHANGED <<coinVars, mabVars, odeVars, ukfVars>>

DataNext == AssignX0 \/ AssignY0 \/ GenerateStep \/ GenerateDone

SpecVBData == DataInit /\ [][DataNext]_vars

\* C14: x[0] is the initial temperature vector, every later row of x is a
\* times the row before it plus the process noise, every row of y is the
\* same row of x plus the measurement noise; no row of x or y is assigned
\* twice, no row of x is read before it is assigned, and when the loop has
\* ended every one of the N rows of x and of y has been assigned once.
C14_DataFollowStateSpaceModel ==
    pcVB \in {"x0", "y0", "loop", "generated"} =>
        /\ ~read_uninit
        /\ \A i \in 1..N_vb :
             /\ x_writes[i] = (IF x_data[i] = Uninit THEN 0 ELSE 1)
             /\ y_writes[i] = (IF y_data[i] = Uninit THEN 0 ELSE 1)
             /\ y_data[i] # Uninit =>
                  /\ x_data[i] # Uninit
                  /\ y_data[i] = VecAdd(x_data[i], noise_y[i])
             /\ (i = 1 /\ x_data[i] # Uninit) => x_data[i] = InitialTemperatures(D)
             /\ (i > 1 /\ x_data[i] # Uninit) =>
                  /\ x_data[i - 1] # Uninit
                  /\ x_data[i] = VecAdd(dot(a, x_data[i - 1]), noise_x[i])
        /\ pcVB = "generated" =>
             \A i \in 1..N_vb : x_writes[i] = 1 /\ y_writes[i] = 1

C14_Witness ==
    /\ pcVB = "generated" /\ D = 3 /\ N_vb = 3
    /\ ks = <<2, 1>> /\ mcp = <<2, 1, 2>>
    /\ x_data[2] = <<RInt(330), RInt(200), RInt(325)>>
    /\ y_data[3] # x_data[3]

\* ------------------------------------------------------------------------
\* Explore_MCMC.ipynb: the right-hand side LSSM_lump
\* ------------------------------------------------------------------------
MaxCond == 1        \* k12, k23 range over 0..MaxCond
MaxTemp == 1        \* the temperatures T[i] range over 0..MaxTemp

\* Phi(B, omega, t) = B * sin(omega * t), given the value sinwt of sin(omega * t)
Phi(B, sinwt) == RMul(RInt(B), sinwt)

\* k * (Tj - Ti) / m
Flow(k, Tj, Ti, m) == RDiv(RMul(RInt(k), RInt(Tj - Ti)), RInt(m))

ConductionOuterOnly(p, T) ==
    <<Flow(p.k12, T[2], T[1], p.mcp[1]),
      Flow(p.k12, T[1], T[2], p.mcp[2]),
      Flow(p.k23, T[2], T[3], p.mcp[3])>>

\* dT[1..3] after the lines under `# Conduction`
Conduction(p, T) ==
    <<Flow(p.k12, T[2], T[1], p.mcp[1]),
      RDiv(RAdd(RMul(RInt(p.k12), RInt(T[1] - T[2])),
                RMul(RInt(p.k23), RInt(T[3] - T[2]))), RInt(p.mcp[2])),
      Flow(p.k23, T[2], T[3], p.mcp[3])>>

\* the term added to dT[i] under `# Convection`
Convection(p, T, i) ==
    RDiv(RMul(RInt(p.h_a * p.A[i]), RInt(p.T_a - T[i])), RInt(p.mcp[i]))

\* the term added to dT[i] under `# Input`
Input(p, i) == RDiv(Phi(p.B[i], p.sinwt[i]), RInt(p.mcp[i]))

ODEParams ==
    [mcp : {<<2, 1, 3>>, <<1, 2, 2>>},
     A : {<<1, 1, 1>>, <<1, 2, 3>>},
     B : {<<2, -2, 1>>, <<1, 0, 3>>},
     sinwt : {<<RZero, ROne, RNeg(ROne)>>, <<Rat(1, 2), Rat(-1, 2), ROne>>},
     T_a : {0, 2},
     k12 : 0..MaxCond,
     k23 : 0..MaxCond,
     h_a : {0, 2}]

ODEInit ==
    /\ ode_p \in ODEParams
    /\ ode_T \in [1..3 -> 0..MaxTemp]
    /\ ode_dT \in {<<RZero, RZero, RZero>>, <<RInt(7), RInt(7), RInt(7)>>}
    /\ pcODE = "conduction"
    /\ CoinIdle /\ MABIdle /\ VBIdle /\ UKFIdle

ODEConduction ==
    /\ pcODE = "conduction"
    /\ ode_dT' = Conduction(ode_p, ode_T)
    /\ pcODE' = "convection"
    /\ UNCHANGED <<ode_p, ode_T>>
    /\ UNCHANGED <<coinVars, mabVars, vbVars, ukfVars>>

ODEConvection ==
    /\ pcODE = "convection"
    /\ ode_dT' = [i \in 1..3 |-> RAdd(ode_dT[i], Convection(ode_p, ode_T, i))]
    /\ pcODE' = "input"
    /\ UNCHANGED <<ode_p, ode_T>>
    /\ UNCHANGED <<coinVars, mabVars, vbVars, ukfVars>>

ODEInput ==
    /\ pcODE = "input"
    /\ ode_dT' = [i \in 1..3 |-> RAdd(ode_dT[i], Input(ode_p, i))]
    /\ pcODE' = "done"
    /\ UNCHANGED <<ode_p, ode_T>>
    /\ UNCHANGED <<coinVars, mabVars, vbVars, ukfVars>>

ODENext == ODEConduction \/ ODEConvection \/ ODEInput

SpecMCMC == ODEInit /\ [][ODENext]_vars

\* (K T)_i for the conduction matrix K of the stated heat equation
HeatKT(p, T) ==
    <<-p.k12 * T[1] + p.k12 * T[2],
      p.k12 * T[1] - (p.k12 + p.k23) * T[2] + p.k23 * T[3],
      p.k23 * T[2] - p.k23 * T[3]>>

\* C7: after a call of LSSM_lump, mcp_i * dT[i] equals
\* (K T)_i + Phi_i(t) + h_a * A_i * (T_a - T[i]) for i = 1, 2, 3.
C7_HeatEquation ==
    pcODE = "done" =>
        \A i \in 1..3 :
            RMul(RInt(ode_p.mcp[i]), ode_dT[i]) =
                RAdd(RInt(HeatKT(ode_p, ode_T)[i]
                          + ode_p.h_a * ode_p.A[i] * (ode_p.T_a - ode_T[i])),
                     RMul(RInt(ode_p.B[i]), ode_p.sinwt[i]))

C7_Witness ==
    /\ pcODE = "done"
    /\ ode_p.k12 = 1 /\ ode_p.k23 = 1 /\ ode_p.h_a = 2 /\ ode_p.T_a = 2
    /\ ode_T = <<1, 0, 1>>
    /\ ode_p.sinwt[1] = Rat(1, 2) /\ ode_p.mcp = <<2, 1, 3>>
    /\ \A i \in 1..3 : ode_dT[i] # RZero

\* ------------------------------------------------------------------------
\* Explore_UKF.ipynb: 1-block simulation and recursive estimation
\* ------------------------------------------------------------------------
MaxN == 3           \* the time horizon N ranges over 1..MaxN
MaxStart == 2       \* the start temperature T_[1] ranges over -MaxStart..MaxStart

\* parameters of the prior distributions
m_x_0 == 300
v_x_0 == 400
m_theta_0 == 2
v_theta_0 == 1

Undef == "undef"

\* real_theta = 1 - Dt * h_a * A / (m * cp)
real_theta(par) == RSub(ROne, Rat(par.Dt * par.h_a * par.A, par.m * par.cp))

SimStepAddsAmbient(theta, Tn, Ta) == RAdd(RMul(theta, Tn), RMul(RAdd(ROne, theta), Ta))

\* real_theta * T_[n] + (1 - real_theta) * T_a
SimStep(theta, Tn, Ta) == RAdd(RMul(theta, Tn), RMul(RSub(ROne, theta), Ta))

UKFParams == [Dt : {1, 3}, h_a : {1}, A : {1}, m : {1, 2}, cp : {2, 3}]

\* measurement noise randn(rng, n) * inv(sqrt(tau)): none, or alternating
NoiseChoices(len) ==
    {[i \in 1..len |-> RZero], [i \in 1..len |-> IF i % 2 = 1 THEN ROne ELSE RNeg(ROne)]}

\* generate_data(rng, n, states, tau) = states + randn(rng, n) * inv(sqrt(tau))
generate_data(len, states) ==
    {[i \in 1..len |-> RAdd(states[i], e[i])] : e \in NoiseChoices(len)}

\* what (unsafeMeanCov(marginals[:x_t]), unsafeMeanCov(marginals[:theta])) can be
\* after step!(data): <<m_x, v_x, m_theta, v_theta>>
StepResults == {<<11, 12, 13, 14>>, <<21, 22, 23, 24>>}

StalePrior(posterior, previous) == previous

\* m_x_tmin1 = m_x_t[t] = m_x: the prior of the next step, given the posterior
\* just stored and the prior used in this step
NextPrior(posterior, previous) == posterior

ObservationBefore(ys, i) == ys[IF i > 1 THEN i - 1 ELSE i]

\* y_[t]
Observation(ys, i) == ys[i]

UKFInit ==
    /\ ukf_par \in UKFParams
    /\ N \in 1..MaxN
    /\ T_a \in {RZero, RInt(1)}
    /\ \E start \in (-MaxStart)..MaxStart :
          T_ = [i \in 1..(N + 1) |-> IF i = 1 THEN RInt(start) ELSE RZero]
    /\ sim_n = 0
    /\ y_ = NotComputed
    /\ m_x_t = [i \in 1..(N + 1) |-> Undef]
    /\ v_x_t = [i \in 1..(N + 1) |-> Undef]
    /\ m_theta_t = [i \in 1..(N + 1) |-> Undef]
    /\ v_theta_t = [i \in 1..(N + 1) |-> Undef]
    /\ m_x_tmin1 = m_x_0
    /\ v_x_tmin1 = v_x_0
    /\ m_theta_tmin1 = m_theta_0
    /\ v_theta_tmin1 = v_theta_0
    /\ data = NotComputed
    /\ t = 0
    /\ pcUKF = "simulate"
    /\ CoinIdle /\ MABIdle /\ VBIdle /\ ODEIdle

\* one iteration of `for n = 1:N`
Simulate ==
    /\ pcUKF = "simulate" /\ sim_n < N
    /\ T_' = [T_ EXCEPT ![sim_n + 2] = SimStep(real_theta(ukf_par), T_[sim_n + 1], T_a)]
    /\ sim_n' = sim_n + 1
    /\ UNCHANGED <<ukf_par, N, T_a, y_, estVars, pcUKF>>
    /\ UNCHANGED <<coinVars, mabVars, vbVars, odeVars>>

\* y_ = generate_data(rng, N + 1, T_, real_tau)
Observe ==
    /\ pcUKF = "simulate" /\ sim_n = N
    /\ y_' \in generate_data(N + 1, T_)
    /\ pcUKF' = "estimate"
    /\ UNCHANGED <<ukf_par, N, T_a, T_, sim_n, estVars>>
    /\ UNCHANGED <<coinVars, mabVars, vbVars, odeVars>>

\* one iteration of `for t in 1:(N + 1)`
Estimate ==
    /\ pcUKF = "estimate" /\ t < N + 1
    /\ data' = [y_t |-> Observation(y_, t + 1),
                m_x |-> m_x_tmin1,
                v_x |-> v_x_tmin1,
                m_theta |-> m_theta_tmin1,
                v_theta |-> v_theta_tmin1]
    /\ \E r \in StepResults :
          /\ m_x_t' = [m_x_t EXCEPT ![t + 1] = r[1]]
          /\ m_x_tmin1' = NextPrior(r[1], m_x_tmin1)
          /\ v_x_t' = [v_x_t EXCEPT ![t + 1] = r[2]]
          /\ v_x_tmin1' = NextPrior(r[2], v_x_tmin1)
          /\ m_theta_t' = [m_theta_t EXCEPT ![t + 1] = r[3]]
          /\ m_theta_tmin1' = NextPrior(r[3], m_theta_tmin1)
          /\ v_theta_t' = [v_theta_t EXCEPT ![t + 1] = r[4]]
          /\ v_theta_tmin1' = NextPrior(r[4], v_theta_tmin1)
    /\ t' = t + 1
    /\ UNCHANGED <<simVars, pcUKF>>
    /\ UNCHANGED <<coinVars, mabVars, vbVars, odeVars>>

EstimateDone ==
    /\ pcUKF = "estimate" /\ t = N + 1
    /\ pcUKF' = "done"
    /\ UNCHANGED <<simVars, estVars>>
    /\ UNCHANGED <<coinVars, mabVars, vbVars, odeVars>>

UKFNext == Simulate \/ Observe \/ Estimate \/ EstimateDone

SpecUKF == UKFInit /\ [][UKFNext]_vars

\* the sign of a rational: -1, 0 or 1
RSign(x) == IF x[1] < 0 THEN -1 ELSE IF x[1] > 0 THEN 1 ELSE 0

\* C8: for 0 < theta < 1 every simulated step satisfies
\* T[n+1] - T_a = theta * (T[n] - T_a); the distance to T_a shrinks strictly
\* while it is not zero, and T stays on its side of T_a.
C8_Equilibrates ==
    LET theta == real_theta(ukf_par)
    IN  (pcUKF # "idle" /\ RLt(RZero, theta) /\ RLt(theta, ROne)) =>
            \A j \in 1..sim_n :
                LET before == RSub(T_[j], T_a)
                    after == RSub(T_[j + 1], T_a)
                IN  /\ after = RMul(theta, before)
                    /\ before # RZero => RLt(RAbs(after), RAbs(before))
                    /\ RSign(after) = RSign(before)

C8_Witness ==
    /\ sim_n = 3 /\ real_theta(ukf_par) = Rat(5, 6)
    /\ T_[1] = RInt(-2) /\ T_a = RInt(1)

\* C9: the priors handed to step! at t = 1 are the initial ones, and at every
\* later t they are the posteriors stored at index t - 1; the observation
\* handed over is y_[t].
C9_PosteriorsBecomePriors ==
    t >= 1 =>
        /\ data.y_t = y_[t]
        /\ t = 1 =>
             /\ data.m_x = m_x_0 /\ data.v_x = v_x_0
             /\ data.m_theta = m_theta_0 /\ data.v_theta = v_theta_0
        /\ t >= 2 =>
             /\ data.m_x = m_x_t[t - 1] /\ data.v_x = v_x_t[t - 1]
             /\ data.m_theta = m_theta_t[t - 1] /\ data.v_theta = v_theta_t[t - 1]

C9_Witness ==
    /\ t = 3 /\ m_x_t[1] = 11 /\ m_x_t[2] = 21 /\ data.m_x = 21
    /\ y_[1] # y_[2] /\ y_[2] # y_[3]

====
